---- MODULE Spec2Model ----
(***************************************************************************)
(* Model of backend/server/main.py of langchain-extract: the two          *)
(* extraction entry points (the /extract_text runnable and the /extract    *)
(* endpoint that uses a stored extractor), the extractor registry they     *)
(* read and the LLM service they call.                                     *)
(*                                                                         *)
(* A JSON schema is a dictionary: a function from a subset of SchemaKeys   *)
(* to strings (json_schema: Dict[str, Any]).  Several requests are in      *)
(* flight at a time, one per worker slot.  Each request records the         *)
(* pipeline steps it performed (trace) and the calls the LLM service        *)
(* received from it (llm_calls), which is what a mock service observes.     *)
(***************************************************************************)
EXTENDS Naturals, Sequences, FiniteSets

VARIABLES registry, module_state, requests, started

vars == <<registry, module_state, requests, started>>

----------------------------------------------------------------------------
(* Bounds *)

MaxExamples == 1

MaxRequests == 3

Slots == {"r1", "r2"}

Texts == {"John is 30", "Ann is 7"}

None == "<None>"

InstructionsOpt == {None, "Be terse."}

ExampleItems == {"ex"}

Titles == {"Person"}

Types == {"object", "string", "bogus"}

ValidTypes == {"object", "string"}

SchemaKeys == {"title", "type"}

ExtractorIds == {"id1", "id2", "id3"}

LLMValues == {"{name: John, age: 30}", "John"}

----------------------------------------------------------------------------
(* Data *)

EmptyDict == [k \in {} |-> ""]

Schemas ==
    { s \in UNION { [K -> Titles \cup Types] : K \in SUBSET SchemaKeys } :
        /\ ("title" \in DOMAIN s => s["title"] \in Titles)
        /\ ("type" \in DOMAIN s => s["type"] \in Types) }

ExampleLists ==
    UNION { [1..n -> ExampleItems] : n \in 0..MaxExamples }

JsonTypeOf(v) == IF v = "John" THEN "string" ELSE "object"

Conforms(v, schema) ==
    "type" \in DOMAIN schema => JsonTypeOf(v) = schema["type"]

PersonSchema == [k \in {"title", "type"} |-> IF k = "title" THEN "Person" ELSE "object"]

BogusSchema == [k \in {"type"} |-> "bogus"]

Registries ==
    { [i \in {"id1", "id2"} |->
         IF i = "id1"
         THEN [schema |-> PersonSchema, instructions |-> None, examples |-> <<>>]
         ELSE [schema |-> BogusSchema, instructions |-> "Be terse.", examples |-> <<"ex">>]],
      [i \in {"id1"} |->
         [schema |-> EmptyDict, instructions |-> "Be terse.", examples |-> <<"ex">>]] }

----------------------------------------------------------------------------
(* Library and collaborator functions *)

IsValidDraft202012(schema) ==
    "type" \in DOMAIN schema => schema["type"] \in ValidTypes

\* Draft202012Validator.check_schema: the class of the exception it raises.
check_schema(schema) ==
    IF IsValidDraft202012(schema) THEN "none" ELSE "SchemaError"

\* server.validators.validate_json_schema: SchemaInvalid on an invalid schema.
validate_json_schema(v) ==
    IF IsValidDraft202012(v) THEN "none" ELSE "SchemaInvalid"

validate_schema_skips(v) == [error |-> "none", trace |-> <<>>]

\* ExtractRequest.validate_schema, the pydantic validator of json_schema:
\* the error it raises and the validation work it performs.
validate_schema(v) ==
    [error |-> validate_json_schema(v), trace |-> <<"validate_json_schema">>]

SchemaGet_always_default(schema, key, default) == default

\* dict.get(key, default)
SchemaGet(schema, key, default) ==
    IF key \in DOMAIN schema THEN schema[key] ELSE default

\* extraction.utils.make_prompt_template(instructions, examples, name)
make_prompt_template(instructions, examples, name) ==
    [instructions |-> instructions, examples |-> examples, name |-> name]

\* extraction.utils.convert_json_schema_to_openai_schema(schema)
convert_json_schema_to_openai_schema(schema) ==
    [name |-> IF "title" \in DOMAIN schema THEN schema["title"] ELSE "",
     parameters |-> [k \in DOMAIN schema \ {"title"} |-> schema[k]]]

----------------------------------------------------------------------------
(* One request *)

Idle ==
    [pc |-> "idle", entry |-> "none", text |-> "", json_schema |-> EmptyDict,
     instructions |-> None, examples |-> <<>>, extractor_id |-> "",
     trace |-> <<>>, llm_calls |-> <<>>, returned |-> None,
     extracted |-> None, error |-> "none"]

Count(seq, e) == Cardinality({ i \in 1..Len(seq) : seq[i] = e })

First(seq, e) ==
    IF Count(seq, e) = 0 THEN Len(seq) + 1
    ELSE CHOOSE i \in 1..Len(seq) : seq[i] = e /\ \A j \in 1..(i-1) : seq[j] # e

ValidationEvents == {"validate_json_schema", "check_schema"}

UseEvents == {"get_title", "make_prompt_template",
              "convert_json_schema_to_openai_schema", "invoke"}

NoOutcome == [error |-> "none", trace |-> <<>>, llm_calls |-> <<>>]

runnable_invoke_twice(function, prompt, text) ==
    << [function |-> function, prompt |-> prompt, text |-> text],
       [function |-> function, prompt |-> prompt, text |-> text] >>

\* create_openai_fn_runnable(functions=[openai_function], llm=model,
\* prompt=prompt).invoke({"text": text}): the calls the LLM service receives.
runnable_invoke(function, prompt, text) ==
    << [function |-> function, prompt |-> prompt, text |-> text] >>

extraction_runnable_converts_first(extraction_request) ==
    LET schema == extraction_request.json_schema
        name == SchemaGet(schema, "title", "")
        prompt == make_prompt_template(extraction_request.instructions,
                                       extraction_request.examples, name)
        openai_function == convert_json_schema_to_openai_schema(schema)
        raised == check_schema(schema)
    IN  IF raised # "none"
        THEN [error |-> raised,
              trace |-> <<"get_title", "make_prompt_template",
                          "convert_json_schema_to_openai_schema", "check_schema">>,
              llm_calls |-> <<>>]
        ELSE [error |-> "none",
              trace |-> <<"get_title", "make_prompt_template",
                          "convert_json_schema_to_openai_schema", "check_schema",
                          "invoke">>,
              llm_calls |-> runnable_invoke(openai_function, prompt,
                                            extraction_request.text)]

\* extraction_runnable up to the point where it waits for the LLM service.
\* check_schema raises SchemaError; the handler catches ValidationError only,
\* which it turns into the 422 "Invalid schema" error.
extraction_runnable(extraction_request) ==
    LET schema == extraction_request.json_schema
        name == SchemaGet(schema, "title", "")
        raised == check_schema(schema)
        error == IF raised = "ValidationError" THEN "SchemaInvalid" ELSE raised
        prompt == make_prompt_template(extraction_request.instructions,
                                       extraction_request.examples, name)
        openai_function == convert_json_schema_to_openai_schema(schema)
    IN  IF error # "none"
        THEN [error |-> error,
              trace |-> <<"get_title", "check_schema">>,
              llm_calls |-> <<>>]
        ELSE [error |-> "none",
              trace |-> <<"get_title", "check_schema", "make_prompt_template",
                          "convert_json_schema_to_openai_schema", "invoke">>,
              llm_calls |-> runnable_invoke(openai_function, prompt,
                                            extraction_request.text)]

ExtractResponse_placeholder(extracted_content) == [extracted |-> "placeholder"]

\* ExtractResponse(extracted=extracted_content)
ExtractResponse(extracted_content) == [extracted |-> extracted_content]

invoke_raises_retries(req) ==
    IF Len(req.llm_calls) < 2
    THEN [req EXCEPT !.llm_calls = Append(@, @[1])]
    ELSE [req EXCEPT !.pc = "failed", !.error = "UpstreamFailure"]

\* runnable.invoke raises inside extraction_runnable: nothing catches it.
invoke_raises(req) ==
    [req EXCEPT !.pc = "failed", !.error = "UpstreamFailure"]

extract_using_existing_extractor_validates_first(reg, extract_request) ==
    LET id == extract_request.extractor_id
    IN  IF id \notin DOMAIN reg
        THEN [pc |-> "failed", error |-> "SchemaInvalid", extracted |-> None,
              trace |-> <<"validate_json_schema">>, llm_calls |-> <<>>]
        ELSE IF reg[id].examples # <<>>
        THEN [pc |-> "failed", error |-> "AssertionError", extracted |-> None,
              trace |-> <<>>, llm_calls |-> <<>>]
        ELSE [pc |-> "done", error |-> "none",
              extracted |-> ExtractResponse("placeholder").extracted,
              trace |-> <<>>, llm_calls |-> <<>>]

\* extract_using_existing_extractor: the whole handler of POST /extract.
extract_using_existing_extractor(reg, extract_request) ==
    LET id == extract_request.extractor_id
    IN  IF id \notin DOMAIN reg
        THEN [pc |-> "failed", error |-> "ExtractorNotFound", extracted |-> None,
              trace |-> <<>>, llm_calls |-> <<>>]
        ELSE IF reg[id].examples # <<>>
        THEN [pc |-> "failed", error |-> "AssertionError", extracted |-> None,
              trace |-> <<>>, llm_calls |-> <<>>]
        ELSE [pc |-> "done", error |-> "none",
              extracted |-> ExtractResponse("placeholder").extracted,
              trace |-> <<>>, llm_calls |-> <<>>]

----------------------------------------------------------------------------
(* State machine *)

TypeOK ==
    /\ registry \in Registries
    /\ module_state = [model |-> [temperature |-> 0]]
    /\ started \in 0..MaxRequests
    /\ \A r \in Slots :
          requests[r].pc \in {"idle", "awaiting", "done", "failed"}

Init ==
    /\ registry \in Registries
    /\ module_state = [model |-> [temperature |-> 0]]
    /\ requests = [r \in Slots |-> Idle]
    /\ started = 0

\* POST /extract_text/invoke: the request body is parsed into an
\* ExtractRequest (running validate_schema), then extraction_runnable runs
\* until it waits for the LLM service.
ExtractText(r, text, json_schema, instructions, examples) ==
    /\ requests[r].pc = "idle"
    /\ started < MaxRequests
    /\ LET v == validate_schema(json_schema)
           req == [Idle EXCEPT !.entry = "extract_text", !.text = text,
                               !.json_schema = json_schema,
                               !.instructions = instructions,
                               !.examples = examples]
           out == IF v.error # "none" THEN NoOutcome
                  ELSE extraction_runnable(
                         [text |-> text, json_schema |-> json_schema,
                          instructions |-> instructions, examples |-> examples])
           error == IF v.error # "none" THEN v.error ELSE out.error
       IN  requests' = [requests EXCEPT ![r] =
               [req EXCEPT !.pc = IF error = "none" THEN "awaiting" ELSE "failed",
                           !.error = error,
                           !.trace = v.trace \o out.trace,
                           !.llm_calls = out.llm_calls]]
    /\ started' = started + 1
    /\ UNCHANGED <<registry, module_state>>

\* The LLM service answers the pending call; extraction_runnable returns.
InvokeReturns(r, value) ==
    /\ requests[r].pc = "awaiting"
    /\ requests' = [requests EXCEPT ![r] =
           [@ EXCEPT !.pc = "done", !.returned = value,
                     !.extracted = ExtractResponse(value).extracted]]
    /\ UNCHANGED <<registry, module_state, started>>

\* The LLM service fails the pending call.
InvokeRaises(r) ==
    /\ requests[r].pc = "awaiting"
    /\ requests' = [requests EXCEPT ![r] = invoke_raises(@)]
    /\ UNCHANGED <<registry, module_state, started>>

ExtractUsingExistingExtractorDeletes(r, extractor_id, text) ==
    /\ requests[r].pc = "idle"
    /\ started < MaxRequests
    /\ LET out == extract_using_existing_extractor(
                     registry, [extractor_id |-> extractor_id, text |-> text])
       IN  requests' = [requests EXCEPT ![r] =
               [Idle EXCEPT !.entry = "extract", !.text = text,
                            !.extractor_id = extractor_id,
                            !.pc = out.pc, !.error = out.error,
                            !.extracted = out.extracted,
                            !.trace = out.trace, !.llm_calls = out.llm_calls]]
    /\ started' = started + 1
    /\ registry' = [i \in DOMAIN registry \ {extractor_id} |-> registry[i]]
    /\ UNCHANGED module_state

\* POST /extract
ExtractUsingExistingExtractor(r, extractor_id, text) ==
    /\ requests[r].pc = "idle"
    /\ started < MaxRequests
    /\ LET out == extract_using_existing_extractor(
                     registry, [extractor_id |-> extractor_id, text |-> text])
       IN  requests' = [requests EXCEPT ![r] =
               [Idle EXCEPT !.entry = "extract", !.text = text,
                            !.extractor_id = extractor_id,
                            !.pc = out.pc, !.error = out.error,
                            !.extracted = out.extracted,
                            !.trace = out.trace, !.llm_calls = out.llm_calls]]
    /\ started' = started + 1
    /\ UNCHANGED <<registry, module_state>>

\* The response or the error has been sent; the worker takes the next request.
Deliver(r) ==
    /\ requests[r].pc \in {"done", "failed"}
    /\ requests' = [requests EXCEPT ![r] = Idle]
    /\ UNCHANGED <<registry, module_state, started>>

Next ==
    \/ \E r \in Slots, text \in Texts, json_schema \in Schemas,
          instructions \in InstructionsOpt, examples \in ExampleLists :
          ExtractText(r, text, json_schema, instructions, examples)
    \/ \E r \in Slots, value \in LLMValues : InvokeReturns(r, value)
    \/ \E r \in Slots : InvokeRaises(r)
    \/ \E r \in Slots, extractor_id \in ExtractorIds, text \in Texts :
          ExtractUsingExistingExtractor(r, extractor_id, text)
    \/ \E r \in Slots : Deliver(r)

Spec == Init /\ [][Next]_vars

----------------------------------------------------------------------------
(* Properties *)

Extracting(r) == requests[r].entry = "extract_text" /\ requests[r].pc # "idle"

LookingUp(r) == requests[r].entry = "extract" /\ requests[r].pc # "idle"

Validations(r) ==
    Count(requests[r].trace, "validate_json_schema")
      + Count(requests[r].trace, "check_schema")

TitleOrEmpty(schema) ==
    IF \E k \in DOMAIN schema : k = "title" THEN schema["title"] ELSE ""

\* C1: an extract request whose json_schema is not a valid Draft 2020-12
\* schema fails with SchemaInvalid, and the LLM service receives no call
\* from it.
C1_InvalidSchemaRejected ==
    \A r \in Slots :
        (Extracting(r) /\ ~IsValidDraft202012(requests[r].json_schema)) =>
            /\ requests[r].pc = "failed"
            /\ requests[r].error = "SchemaInvalid"
            /\ requests[r].llm_calls = <<>>

C1_Witness ==
    \E r \in Slots :
        /\ Extracting(r)
        /\ requests[r].json_schema = BogusSchema
        /\ requests[r].error = "SchemaInvalid"

\* C2: an extract request with a valid schema makes exactly one call to the
\* LLM service, whatever its instructions and examples, and whether the call
\* is pending, answered or failed.
C2_ExactlyOneCall ==
    \A r \in Slots :
        (Extracting(r) /\ IsValidDraft202012(requests[r].json_schema)) =>
            /\ Len(requests[r].llm_calls) = 1
            /\ requests[r].llm_calls[1].text = requests[r].text

C2_Witness ==
    \E r \in Slots :
        /\ Extracting(r)
        /\ requests[r].pc = "done"
        /\ requests[r].instructions # None
        /\ requests[r].examples # <<>>
        /\ Len(requests[r].llm_calls) = 1

\* C3: when the LLM call succeeds, the extracted field of the response is
\* the value the LLM service returned, also when that value does not conform
\* to json_schema.
C3_ExtractedIsReturned ==
    \A r \in Slots :
        (Extracting(r) /\ requests[r].pc = "done") =>
            /\ requests[r].error = "none"
            /\ requests[r].extracted = requests[r].returned

C3_Witness ==
    \E r \in Slots :
        /\ Extracting(r)
        /\ requests[r].pc = "done"
        /\ ~Conforms(requests[r].returned, requests[r].json_schema)
        /\ requests[r].extracted = requests[r].returned

\* C4: on the lookup entry point an identifier that is not in the registry
\* yields ExtractorNotFound, and no schema validation, conversion, prompt
\* building or LLM call has happened for that request.
C4_UnknownIdNotFound ==
    \A r \in Slots :
        (LookingUp(r) /\ requests[r].extractor_id \notin DOMAIN registry) =>
            /\ requests[r].pc = "failed"
            /\ requests[r].error = "ExtractorNotFound"
            /\ requests[r].error # "SchemaInvalid"
            /\ requests[r].trace = <<>>
            /\ requests[r].llm_calls = <<>>

C4_Witness ==
    \E r \in Slots :
        /\ LookingUp(r)
        /\ requests[r].extractor_id \notin DOMAIN registry
        /\ requests[r].error = "ExtractorNotFound"

\* C5: on the lookup entry point a resolved extractor is run through the
\* pipeline of the primary operation with its stored schema: the schema is
\* validated, an invalid one gives SchemaInvalid, a valid one gives exactly
\* one LLM call and never a value the LLM service did not return.
C5_LookupFollowsPipeline ==
    \A r \in Slots :
        (LookingUp(r) /\ requests[r].extractor_id \in DOMAIN registry) =>
            LET e == registry[requests[r].extractor_id]
            IN  /\ Validations(r) >= 1
                /\ IF IsValidDraft202012(e.schema)
                   THEN /\ Len(requests[r].llm_calls) = 1
                        /\ requests[r].pc = "done" =>
                              requests[r].extracted = requests[r].returned
                   ELSE requests[r].error = "SchemaInvalid"

\* C6 as stated: within one extract request schema validation runs exactly
\* once, before the conversion and before any field of the schema is used.
C6_ValidatedExactlyOnce ==
    \A r \in Slots :
        Extracting(r) =>
            /\ Validations(r) = 1
            /\ requests[r].trace[1] \in ValidationEvents

\* C6 as amended: within one extract request schema validation runs once at
\* request construction, before any field of the schema is used; a request
\* whose schema passes is validated a second time inside extraction_runnable,
\* after the title is read and before the prompt is built and the schema is
\* converted.  No request is validated more than twice.
C6_ValidatedFirstThenAgain ==
    \A r \in Slots :
        Extracting(r) =>
            LET t == requests[r].trace
            IN  /\ Len(t) >= 1
                /\ t[1] = "validate_json_schema"
                /\ Count(t, "validate_json_schema") = 1
                /\ Count(t, "check_schema") =
                      (IF IsValidDraft202012(requests[r].json_schema) THEN 1 ELSE 0)
                /\ First(t, "get_title") > 1
                /\ Count(t, "convert_json_schema_to_openai_schema") = 1 =>
                      /\ First(t, "get_title") < First(t, "check_schema")
                      /\ First(t, "check_schema") < First(t, "make_prompt_template")
                      /\ First(t, "check_schema")
                            < First(t, "convert_json_schema_to_openai_schema")

C6_Witness ==
    \E r \in Slots :
        /\ Extracting(r)
        /\ Validations(r) = 2
        /\ Count(requests[r].trace, "convert_json_schema_to_openai_schema") = 1

\* C7: when the LLM call fails the extract request ends in UpstreamFailure:
\* the LLM service was called once, not twice, and no extracted value is
\* returned.
C7_FailureSurfaces ==
    \A r \in Slots :
        Extracting(r) =>
            /\ Len(requests[r].llm_calls) <= 1
            /\ requests[r].error = "UpstreamFailure" =>
                  /\ requests[r].pc = "failed"
                  /\ Len(requests[r].llm_calls) = 1
                  /\ requests[r].extracted = None
            /\ (requests[r].pc = "failed" /\ requests[r].llm_calls # <<>>) =>
                  requests[r].error = "UpstreamFailure"

C7_Witness ==
    \E r \in Slots :
        /\ Extracting(r)
        /\ requests[r].pc = "failed"
        /\ requests[r].error = "UpstreamFailure"
        /\ Len(requests[r].llm_calls) = 1

\* C8: the name given to the function and the name injected into the prompt
\* are the schema's title when it has one and the empty string when it has
\* none.
C8_NameIsTitle ==
    \A r \in Slots :
        \A i \in 1..Len(requests[r].llm_calls) :
            /\ requests[r].llm_calls[i].prompt.name
                  = TitleOrEmpty(requests[r].json_schema)
            /\ requests[r].llm_calls[i].function.name
                  = TitleOrEmpty(requests[r].json_schema)

C8_Witness ==
    \E r1, r2 \in Slots :
        /\ Len(requests[r1].llm_calls) = 1
        /\ Len(requests[r2].llm_calls) = 1
        /\ requests[r1].llm_calls[1].prompt.name = "Person"
        /\ requests[r2].llm_calls[1].prompt.name = ""
        /\ "title" \notin DOMAIN requests[r2].json_schema

\* C9: every failure either entry point surfaces is SchemaInvalid,
\* ExtractorNotFound or UpstreamFailure.
C9_ThreeErrorKinds ==
    \A r \in Slots :
        requests[r].error \in
            {"none", "SchemaInvalid", "ExtractorNotFound", "UpstreamFailure"}

\* C10: no step of either entry point changes the extractor registry or the
\* module-level state.
C10_RegistryAndModuleStateUnchanged ==
    [][registry' = registry /\ module_state' = module_state]_vars

C10_Witness ==
    /\ started = MaxRequests
    /\ \E r1, r2 \in Slots :
          /\ LookingUp(r1) /\ requests[r1].pc = "done"
          /\ Extracting(r2) /\ requests[r2].pc = "done"

====
